---- MODULE Spec2Model ----
(***************************************************************************)
(* Model of AppManager (src/models/app_manager.py): the roster of          *)
(* connected participants, the voting round and its indicators, and the    *)
(* backlog the round refers to.  Every method of AppManager is one action; *)
(* the method called last and the way it ended (value returned or          *)
(* exception raised) are kept in `appel` and `retour`.  The routes of       *)
(* src/app.py that guard a method (/login, /logout, /soumettre_vote) are   *)
(* actions of their own, in the specifications that exercise them.         *)
(*                                                                         *)
(* Not modelled: the avatar of a participant (a function of the pseudo     *)
(* that is only displayed), state["mapper_session"] (written by            *)
(* ajouter_participant and read nowhere) and the JSON file of the backlog. *)
(***************************************************************************)
EXTENDS Integers, Sequences, FiniteSets, TLC

VARIABLES participants, backlog, id_fonctionnalite, indicateurs, appel, retour

vars == <<participants, backlog, id_fonctionnalite, indicateurs, appel, retour>>

(* ----------------------------- bounds ---------------------------------- *)

\* Largest roster the model lets ajouter_participant build.
MaxParticipants == 4

\* Largest id the model lets ajout_fonctionnalite hand out.
MaxId == 3

(* ---------------------------- vocabulary ------------------------------- *)

\* None, as the value of a participant's vote.
PasDeVote == "None"

\* None, as the value of state["id_fonctionnalite"]; the ids of features are
\* positive, so `not fonctionnalite_id` is true of this value only.
AucuneFonctionnalite == 0

\* Pseudos given to ajouter_participant when only the roster is exercised.
PseudosConnexion == {"po", "PO", "sm", "SM", "lina", "Lina", "hugo", "bob", ""}

\* Session ids given with them, and to logout_participant: two participants
\* may come with one session id.
SessionIds == {"s1", "s2"}

\* What is typed in the form of /login.
PseudosFormulaire == {"po", "PO", "sm", "lina", " hugo ", "bob", ""}

\* The session ids uuid.uuid4() gives to login().
SessionIdsLogin == {"u1", "u2", "u3", "u4"}

\* (pseudo, session id) given to ajouter_participant when the four pseudos of
\* test_ajouter_participant_autorises take part in a round.
ConnexionsRoles == {<<"PO", "r1">>, <<"SM", "r2">>, <<"lina", "r3">>, <<"hugo", "r4">>}

\* The one card they play, and the one feature they vote on.
ValeursVoteRoles == {"5"}

IdsDemandesRoles == {1}

\* Pseudos given to the operations of a voting round: the Scrum Master and
\* two voters.
PseudosVote == {"sm", "lina", "hugo"}

\* (pseudo, session id) given to ajouter_participant in a voting round: one
\* session per participant, as login() generates them.
ConnexionsVote == {<<"sm", "s1">>, <<"lina", "s2">>, <<"hugo", "s3">>}

\* Session ids given to logout_participant in a voting round.
SessionIdsVote == {"s1", "s2", "s3"}

\* Values given to ajouter_vote: two cards int() parses and one it does not.
ValeursVote == {"3", "5", "cafe"}

\* Ids given to initier_vote; 4 is the id of no feature.
IdsDemandes == {1, 2, 3, 4}

\* Priorities given to ajout_fonctionnalite and modifier_fonctionnalite,
\* written as text: the number 1 and the string "1" are one value here, as
\* they are for int(), the one reader of priorite.  "abc" is what int() does
\* not parse.
PrioritesDonnees == {"1", "2", "abc"}

\* The arguments of ajout_fonctionnalite.  description and statut, free
\* texts handled like nom, are left out.
ArgumentsAjout ==
  {[nom |-> "A", priorite |-> priorite, difficulte |-> "1",
    mode_de_vote |-> "unanimite", participants |-> <<>>] : priorite \in PrioritesDonnees}

\* The **kwargs of modifier_fonctionnalite; couleur is no attribute of a
\* feature.
KwargsDonnes ==
  {[priorite |-> "1"], [priorite |-> "2"], [priorite |-> "abc"], [couleur |-> "rouge"]}

\* **kwargs of modifier_fonctionnalite that name one field, two fields, and a
\* field with a key that is no attribute.
KwargsChamps ==
  {[nom |-> "B"], [priorite |-> "1"], [nom |-> "B", priorite |-> "2"],
   [nom |-> "B", couleur |-> "rouge"]}

\* The arguments of ajout_fonctionnalite while rounds are voted: the mode of
\* the route's default.
ArgumentsTour ==
  {[nom |-> "A", priorite |-> "1", difficulte |-> "1",
    mode_de_vote |-> "unanimite", participants |-> <<>>]}

\* **kwargs of modifier_fonctionnalite while rounds are voted: the voting
\* mode, or another field than the voting mode.
KwargsTour == {[mode_de_vote |-> "moyenne"], [mode_de_vote |-> "unanimite"], [nom |-> "A"]}

\* The one Voter of these rounds, the session login() gave it and its card.
ConnexionTour == <<"hugo", "s3">>

VoteTour == "3"

\* **kwargs of modifier_fonctionnalite that name the attribute id.
KwargsAvecId == {[id |-> 0], [id |-> 2], [nom |-> "B", id |-> 1]}

\* Ids given to modifier_fonctionnalite and supprimer_fonctionnalite; the
\* last one is the id of no feature.
IdsFonctionnalites == 1..(MaxId + 1)

\* What session['pseudo_actif'] holds when a route of the backlog is called
\* ("absent": nothing).
PseudosActifsBacklog == {"absent", "PO", "hugo"}

\* What is typed in the form of /ajouter_fonctionnalite.
FormulairesAjout ==
  {[nom |-> "A", priorite |-> priorite, difficulte |-> difficulte] :
     priorite \in {"1", "2", "5", "abc"}, difficulte \in {"1", "5", ""}}

\* What is typed in the form of /edit_fonctionnalite_route.
FormulairesEdition ==
  {[nom |-> "B", priorite |-> priorite, difficulte |-> "1",
    mode_de_vote |-> "moyenne", participants |-> <<>>] : priorite \in {"1", "abc"}}

\* str.isdigit() on what is typed in these forms.
isdigit(texte) == texte \in {"1", "2", "5"}

\* str.lower() on the pseudos above.
lower(pseudo) ==
  CASE pseudo = "PO" -> "po"
    [] pseudo = "SM" -> "sm"
    [] pseudo = "Lina" -> "lina"
    [] OTHER -> pseudo

\* str.strip() on what is typed in the form of /login.
strip(pseudo) ==
  CASE pseudo = " hugo " -> "hugo"
    [] OTHER -> pseudo

\* int() on the vote values and the priorities: the strings it accepts.
int_accepte(vote) == vote \in {"1", "2", "3", "5"}

\* int() on the vote values and the priorities: the number it returns.
int(vote) ==
  CASE vote = "1" -> 1
    [] vote = "2" -> 2
    [] vote = "3" -> 3
    [] vote = "5" -> 5

(* ----------------------------- constants ------------------------------- *)

PARTICIPANTS_AUTORISES == {"po", "sm", "lina", "hugo"}

\* The thresholds `from constantes import *` brings in.  The specification
\* gives the one of the average as 4.0; the one of the median is taken equal.
SEUIL_APPROBATION_MOYENNE == 4

SEUIL_APPROBATION_MEDIANE == 4

\* The bounds `from constantes import *` brings into app.py.  The
\* specification calls them configured and gives no value.
PRIORITE_MIN == 1

PRIORITE_MAX == 3

DIFFICULTE_MIN == 1

DIFFICULTE_MAX == 3

(* --------------------------- how a call ends --------------------------- *)

Retourne(valeur) == [issue |-> "return", valeur |-> valeur, votes |-> {}]

RetourneVotes(votes) == [issue |-> "return", valeur |-> "dict", votes |-> votes]

Leve(exception) == [issue |-> "raise", valeur |-> exception, votes |-> {}]

(* ------------------------------- Init ---------------------------------- *)

\* The backlog file the manager is constructed on: one feature per voting
\* mode, in the order charger_backlog sorts it into (ascending priorite).
\* The feature of highest priority is the one of mode "moyenne".
BacklogCharge ==
  << [id |-> 2, priorite |-> 1, mode_de_vote |-> "moyenne", participants |-> <<"hugo", "lina">>],
     [id |-> 1, priorite |-> 2, mode_de_vote |-> "unanimite", participants |-> <<"hugo", "lina">>],
     [id |-> 3, priorite |-> 3, mode_de_vote |-> "mediane", participants |-> <<"hugo">>] >>

Init ==
  /\ participants = <<>>
  /\ backlog = BacklogCharge
  /\ id_fonctionnalite = AucuneFonctionnalite
  /\ indicateurs = [reunion_active |-> FALSE,
                    vote_commence |-> FALSE,
                    votes_reveles |-> FALSE,
                    tout_le_monde_a_vote |-> FALSE,
                    fonctionnalite_approuvee |-> FALSE]
  /\ appel = "__init__"
  /\ retour = Retourne("None")

(* ------------------------------ helpers -------------------------------- *)

Indices == 1..Len(participants)

PseudosConnectes == {participants[i].pseudo : i \in Indices}

\* any(p["fonction"] == fonction for p in self.state["participants"])
FonctionPrise(fonction) == \E i \in Indices : participants[i].fonction = fonction

\* next((f for f in self.backlog if f.id == fonctionnalite_id), None): the
\* position of the first feature with that id, 0 for None.
PositionFonctionnalite(fonctionnalite_id) ==
  IF \E k \in 1..Len(backlog) : backlog[k].id = fonctionnalite_id
  THEN CHOOSE k \in 1..Len(backlog) :
         /\ backlog[k].id = fonctionnalite_id
         /\ \A j \in 1..(k - 1) : backlog[j].id # fonctionnalite_id
  ELSE 0

\* get_data_par_pseudo: the position of the first participant with that
\* pseudo, 0 for None.
get_data_par_pseudo(pseudo) ==
  IF \E i \in Indices : participants[i].pseudo = pseudo
  THEN CHOOSE i \in Indices :
         /\ participants[i].pseudo = pseudo
         /\ \A j \in 1..(i - 1) : participants[j].pseudo # pseudo
  ELSE 0

\* for participant in self.state["participants"]: participant["vote"] = None
VotesEffaces ==
  [i \in Indices |-> [participants[i] EXCEPT !.vote = PasDeVote]]

(* --------------------------- the roster -------------------------------- *)

\* FonctionDe comparing the pseudo as given, without lower().
FonctionDe_casse(pseudo) ==
  IF pseudo = "po" THEN "Product Owner"
  ELSE IF pseudo = "sm" THEN "Scrum Master"
  ELSE "Votant"

\* The role ajouter_participant gives to a pseudo.
FonctionDe(pseudo) ==
  IF lower(pseudo) = "po" THEN "Product Owner"
  ELSE IF lower(pseudo) = "sm" THEN "Scrum Master"
  ELSE "Votant"

\* RefusAjout without the two checks that a role is already held.
RefusAjout_sans_role(pseudo) ==
  IF pseudo = "" THEN "ValueError: pseudo vide"
  ELSE IF lower(pseudo) \notin PARTICIPANTS_AUTORISES THEN "ValueError: non autorise"
  ELSE IF pseudo \in PseudosConnectes THEN "ValueError: existe deja"
  ELSE ""

\* The exception ajouter_participant raises, "" when it raises none.
RefusAjout(pseudo) ==
  IF pseudo = "" THEN "ValueError: pseudo vide"
  ELSE IF lower(pseudo) \notin PARTICIPANTS_AUTORISES THEN "ValueError: non autorise"
  ELSE IF pseudo \in PseudosConnectes THEN "ValueError: existe deja"
  ELSE IF lower(pseudo) = "po" /\ FonctionPrise("Product Owner")
    THEN "ValueError: Product Owner existe deja"
  ELSE IF lower(pseudo) = "sm" /\ FonctionPrise("Scrum Master")
    THEN "ValueError: Scrum Master existe deja"
  ELSE ""

\* nouveau_participant with a card already played.
nouveau_participant_avec_vote(pseudo, session_id) ==
  [pseudo |-> pseudo,
   fonction |-> FonctionDe(pseudo),
   vote |-> "5",
   session_id |-> session_id]

\* The dict ajouter_participant appends to state["participants"].
nouveau_participant(pseudo, session_id) ==
  [pseudo |-> pseudo,
   fonction |-> FonctionDe(pseudo),
   vote |-> PasDeVote,
   session_id |-> session_id]

\* ajouter_participant that takes a pseudo that is already connected.
ajouter_participant_doublon(pseudo, session_id) ==
  /\ appel' = "ajouter_participant"
  /\ IF RefusAjout(pseudo) \notin {"", "ValueError: existe deja"}
     THEN /\ retour' = Leve(RefusAjout(pseudo))
          /\ UNCHANGED participants
     ELSE /\ Len(participants) < MaxParticipants
          /\ participants' = Append(participants, nouveau_participant(pseudo, session_id))
          /\ retour' = Retourne("None")
  /\ UNCHANGED <<backlog, id_fonctionnalite, indicateurs>>

ajouter_participant(pseudo, session_id) ==
  /\ appel' = "ajouter_participant"
  /\ IF RefusAjout(pseudo) # ""
     THEN /\ retour' = Leve(RefusAjout(pseudo))
          /\ UNCHANGED participants
     ELSE /\ Len(participants) < MaxParticipants
          /\ participants' = Append(participants, nouveau_participant(pseudo, session_id))
          /\ retour' = Retourne("None")
  /\ UNCHANGED <<backlog, id_fonctionnalite, indicateurs>>

\* logout_participant keeping the participants of the session id instead
\* of the others.
logout_participant_inverse(session_id) ==
  /\ appel' = "logout_participant"
  /\ participants' = SelectSeq(participants, LAMBDA p : p.session_id = session_id)
  /\ retour' = Retourne("None")
  /\ UNCHANGED <<backlog, id_fonctionnalite, indicateurs>>

logout_participant(session_id) ==
  /\ appel' = "logout_participant"
  /\ participants' = SelectSeq(participants, LAMBDA p : p.session_id # session_id)
  /\ retour' = Retourne("None")
  /\ UNCHANGED <<backlog, id_fonctionnalite, indicateurs>>

\* fonctionnalite_prioritaire.participants if fonctionnalite_prioritaire
\* else [], the feature being backlog[0] (afficher_fonctionnalite_prioritaire).
participants_backlog ==
  IF Len(backlog) > 0
  THEN {backlog[1].participants[k] : k \in 1..Len(backlog[1].participants)}
  ELSE {}

\* The route /login of app.py (POST): the pseudo typed in is stripped and
\* lower-cased, the session id is a fresh uuid, and the ValueError of
\* ajouter_participant is caught and shown.
login(pseudo_saisi, session_id) ==
  LET pseudo == lower(strip(pseudo_saisi)) IN
    /\ \A i \in Indices : participants[i].session_id # session_id
    /\ IF pseudo \notin {"po", "PO", "sm", "SM"} /\ pseudo \notin participants_backlog
       THEN /\ appel' = "login"
            /\ retour' = Retourne("redirect: non autorise")
            /\ UNCHANGED <<participants, backlog, id_fonctionnalite, indicateurs>>
       ELSE ajouter_participant(pseudo, session_id)

\* The route /logout of app.py: session_id is the cookie, "" when absent.
logout(session_id) ==
  IF session_id # ""
  THEN logout_participant(session_id)
  ELSE /\ appel' = "logout"
       /\ retour' = Retourne("redirect: login")
       /\ UNCHANGED <<participants, backlog, id_fonctionnalite, indicateurs>>

\* is_team_complete looking for the expected pseudos among the session ids.
is_team_complete_par_session(fonctionnalite) ==
  \A k \in 1..Len(fonctionnalite.participants) :
    fonctionnalite.participants[k] \in {participants[i].session_id : i \in Indices}

\* all(p in participants_connectes for p in participants_attendus), the
\* connected pseudos being those of every role.
is_team_complete(fonctionnalite) ==
  \A k \in 1..Len(fonctionnalite.participants) :
    fonctionnalite.participants[k] \in {participants[i].pseudo : i \in Indices}

\* A call of is_team_complete on the feature of highest priority, as the
\* routes /salle_de_vote and /initier_vote make it once they have found one.
appeler_is_team_complete ==
  /\ Len(backlog) > 0
  /\ appel' = "is_team_complete"
  /\ retour' = Retourne(IF is_team_complete(backlog[1]) THEN "True" ELSE "False")
  /\ UNCHANGED <<participants, backlog, id_fonctionnalite, indicateurs>>

(* ------------------------------ the round ------------------------------ *)

initier_vote(fonctionnalite_id) ==
  /\ appel' = "initier_vote"
  /\ IF PositionFonctionnalite(fonctionnalite_id) = 0
     THEN /\ retour' = Leve("ValueError: fonctionnalite non trouvee")
          /\ UNCHANGED <<participants, id_fonctionnalite, indicateurs>>
     ELSE /\ indicateurs' = [indicateurs EXCEPT !.vote_commence = TRUE,
                                                !.tout_le_monde_a_vote = FALSE]
          /\ id_fonctionnalite' = fonctionnalite_id
          /\ participants' = VotesEffaces
          /\ retour' = Retourne("None")
  /\ UNCHANGED backlog

\* ajouter_vote without the check that the participant has voted.
ajouter_vote_ecrase(pseudo, vote) ==
  /\ appel' = "ajouter_vote"
  /\ LET i == get_data_par_pseudo(pseudo) IN
       IF i = 0
       THEN /\ retour' = Leve("TypeError")
            /\ UNCHANGED participants
       ELSE /\ participants' = [participants EXCEPT ![i].vote = vote]
            /\ retour' = Retourne("None")
  /\ UNCHANGED <<backlog, id_fonctionnalite, indicateurs>>

ajouter_vote(pseudo, vote) ==
  /\ appel' = "ajouter_vote"
  /\ LET i == get_data_par_pseudo(pseudo) IN
       IF i = 0
       THEN \* participant is None: participant["vote"] raises
            /\ retour' = Leve("TypeError")
            /\ UNCHANGED participants
       ELSE IF participants[i].vote # PasDeVote
       THEN /\ retour' = Leve("ValueError: a deja vote")
            /\ UNCHANGED participants
       ELSE /\ participants' = [participants EXCEPT ![i].vote = vote]
            /\ retour' = Retourne("None")
  /\ UNCHANGED <<backlog, id_fonctionnalite, indicateurs>>

\* soumettre_vote without the check of vote_commence.
soumettre_vote_sans_garde(pseudo_actif, pseudo, vote) ==
  IF pseudo_actif = "absent"
  THEN /\ appel' = "soumettre_vote"
       /\ retour' = Leve("AttributeError")
       /\ UNCHANGED <<participants, backlog, id_fonctionnalite, indicateurs>>
  ELSE IF pseudo_actif = ""
  THEN /\ appel' = "soumettre_vote"
       /\ retour' = Retourne("redirect: aucun participant actif")
       /\ UNCHANGED <<participants, backlog, id_fonctionnalite, indicateurs>>
  ELSE IF pseudo = "" \/ vote = ""
  THEN /\ appel' = "soumettre_vote"
       /\ retour' = Retourne("redirect: pseudo ou vote manquant")
       /\ UNCHANGED <<participants, backlog, id_fonctionnalite, indicateurs>>
  ELSE ajouter_vote(pseudo, vote)

\* The route /soumettre_vote of app.py, the one caller of ajouter_vote:
\* pseudo_actif is what the browser session holds ("absent": nothing).
soumettre_vote(pseudo_actif, pseudo, vote) ==
  IF pseudo_actif = "absent"
  THEN \* session.get('pseudo_actif') is None: .strip() raises
       /\ appel' = "soumettre_vote"
       /\ retour' = Leve("AttributeError")
       /\ UNCHANGED <<participants, backlog, id_fonctionnalite, indicateurs>>
  ELSE IF pseudo_actif = ""
  THEN /\ appel' = "soumettre_vote"
       /\ retour' = Retourne("redirect: aucun participant actif")
       /\ UNCHANGED <<participants, backlog, id_fonctionnalite, indicateurs>>
  ELSE IF ~indicateurs.vote_commence
  THEN /\ appel' = "soumettre_vote"
       /\ retour' = Retourne("redirect: vote non commence")
       /\ UNCHANGED <<participants, backlog, id_fonctionnalite, indicateurs>>
  ELSE IF pseudo = "" \/ vote = ""
  THEN /\ appel' = "soumettre_vote"
       /\ retour' = Retourne("redirect: pseudo ou vote manquant")
       /\ UNCHANGED <<participants, backlog, id_fonctionnalite, indicateurs>>
  ELSE ajouter_vote(pseudo, vote)

\* tout_le_monde_a_vote asking a vote of every participant, whatever the role.
tout_le_monde_a_vote_tous_roles ==
  \A i \in Indices : participants[i].vote # PasDeVote

\* AppManager.tout_le_monde_a_vote(), the method (not the indicator).
tout_le_monde_a_vote ==
  \A i \in Indices :
    participants[i].fonction = "Votant" => participants[i].vote # PasDeVote

\* A call of tout_le_monde_a_vote() that keeps the boolean in the indicator.
appeler_tout_le_monde_a_vote_et_ecrire ==
  /\ appel' = "tout_le_monde_a_vote"
  /\ retour' = Retourne(IF tout_le_monde_a_vote THEN "True" ELSE "False")
  /\ indicateurs' = [indicateurs EXCEPT !.tout_le_monde_a_vote = tout_le_monde_a_vote]
  /\ UNCHANGED <<participants, backlog, id_fonctionnalite>>

\* A call of tout_le_monde_a_vote(): it returns the boolean and writes nothing.
appeler_tout_le_monde_a_vote ==
  /\ appel' = "tout_le_monde_a_vote"
  /\ retour' = Retourne(IF tout_le_monde_a_vote THEN "True" ELSE "False")
  /\ UNCHANGED <<participants, backlog, id_fonctionnalite, indicateurs>>

\* The dict `votes` of reveler_votes: pseudo -> vote for the participants
\* whose vote is not None.
votes_des_participants ==
  {<<participants[i].pseudo, participants[i].vote>> :
     i \in {j \in Indices : participants[j].vote # PasDeVote}}

\* IndicateursApresRevelation dropping the approval of the feature.
IndicateursApresRevelation_sans_approbation ==
  [indicateurs EXCEPT !.votes_reveles = TRUE, !.fonctionnalite_approuvee = FALSE]

\* state["indicateurs"] as reveler_votes leaves it.
IndicateursApresRevelation == [indicateurs EXCEPT !.votes_reveles = TRUE]

\* reveler_votes showing the votes of the Voters only.
reveler_votes_des_votants ==
  /\ appel' = "reveler_votes"
  /\ indicateurs' = [indicateurs EXCEPT !.votes_reveles = TRUE]
  /\ retour' = RetourneVotes({<<participants[i].pseudo, participants[i].vote>> :
                                i \in {j \in Indices :
                                         /\ participants[j].fonction = "Votant"
                                         /\ participants[j].vote # PasDeVote}})
  /\ UNCHANGED <<participants, backlog, id_fonctionnalite>>

reveler_votes ==
  /\ appel' = "reveler_votes"
  /\ indicateurs' = IndicateursApresRevelation
  /\ retour' = RetourneVotes(votes_des_participants)
  /\ UNCHANGED <<participants, backlog, id_fonctionnalite>>

\* reinitialiser_votes forgetting the feature and its approval as well.
reinitialiser_votes_et_tour ==
  /\ appel' = "reinitialiser_votes"
  /\ participants' = VotesEffaces
  /\ indicateurs' = [indicateurs EXCEPT !.vote_commence = FALSE,
                                        !.votes_reveles = FALSE,
                                        !.fonctionnalite_approuvee = FALSE]
  /\ id_fonctionnalite' = AucuneFonctionnalite
  /\ retour' = Retourne("None")
  /\ UNCHANGED backlog

reinitialiser_votes ==
  /\ appel' = "reinitialiser_votes"
  /\ participants' = VotesEffaces
  /\ indicateurs' = [indicateurs EXCEPT !.vote_commence = FALSE,
                                        !.votes_reveles = FALSE]
  /\ retour' = Retourne("None")
  /\ UNCHANGED <<backlog, id_fonctionnalite>>

(* ----------------------------- valider_vote ---------------------------- *)

\* VotesDesVotants taking the votes of every role.
VotesDesVotants_tous_roles ==
  {i \in Indices :
     /\ participants[i].vote # PasDeVote
     /\ \A j \in Indices :
          (j > i /\ participants[j].pseudo = participants[i].pseudo)
            => participants[j].vote = PasDeVote}

\* The keys of the dict `votes` of valider_vote, as positions in the roster:
\* the Voters with a vote; of two entries with one pseudo the later one wins.
VotesDesVotants ==
  {i \in Indices :
     /\ participants[i].fonction = "Votant"
     /\ participants[i].vote # PasDeVote
     /\ \A j \in Indices :
          (j > i /\ participants[j].pseudo = participants[i].pseudo)
            => ~(participants[j].fonction = "Votant" /\ participants[j].vote # PasDeVote)}

\* set(votes.values())
ValeursDesVotes == {participants[i].vote : i \in VotesDesVotants}

RECURSIVE SommeInt(_)
\* sum(map(int, votes.values())) over the positions S
SommeInt(S) ==
  IF S = {} THEN 0
  ELSE LET i == CHOOSE j \in S : TRUE
       IN int(participants[i].vote) + SommeInt(S \ {i})

\* len(set(votes.values())) == 1
unanimite_atteinte == Cardinality(ValeursDesVotes) = 1

\* moyenne_atteinte with > for >=.
moyenne_atteinte_stricte ==
  SommeInt(VotesDesVotants) > SEUIL_APPROBATION_MOYENNE * Cardinality(VotesDesVotants)

\* sum(map(int, votes.values())) / len(votes) >= SEUIL_APPROBATION_MOYENNE,
\* with the division (len(votes) > 0) moved to the other side.
moyenne_atteinte ==
  SommeInt(VotesDesVotants) >= SEUIL_APPROBATION_MOYENNE * Cardinality(VotesDesVotants)

\* map(int, votes.values()) raises ValueError on some vote
int_refuse_un_vote == \E i \in VotesDesVotants : ~int_accepte(participants[i].vote)

\* ModeDeVoteActif read from the feature of highest priority.
ModeDeVoteActif_prioritaire == backlog[1].mode_de_vote

\* The voting mode valider_vote evaluates: that of the first feature of the
\* backlog whose id is state["id_fonctionnalite"].
ModeDeVoteActif == backlog[PositionFonctionnalite(id_fonctionnalite)].mode_de_vote

\* The way valider_vote ends:
\*   "False"    an early return, fonctionnalite_approuvee untouched
\*   "approuve" fonctionnalite_approuvee = True,  return True
\*   "rejete"   fonctionnalite_approuvee = False, return False
\*   otherwise the exception that leaves the method
IssueValidation ==
  IF id_fonctionnalite = AucuneFonctionnalite THEN "False"
  ELSE IF VotesDesVotants = {} THEN "False"
  ELSE IF PositionFonctionnalite(id_fonctionnalite) = 0 THEN "False"
  ELSE IF ModeDeVoteActif = "unanimite"
    THEN IF unanimite_atteinte THEN "approuve" ELSE "rejete"
  ELSE IF ModeDeVoteActif = "moyenne"
    THEN IF int_refuse_un_vote THEN "ValueError: int()"
         ELSE IF moyenne_atteinte THEN "approuve" ELSE "rejete"
  ELSE IF ModeDeVoteActif = "mediane"
    THEN \* `statistics` is a name the module never binds
         "NameError: statistics"
  ELSE "rejete"

\* What valider_vote returns or raises.
RetourValidation ==
  CASE IssueValidation = "False" -> Retourne("False")
    [] IssueValidation = "approuve" -> Retourne("True")
    [] IssueValidation = "rejete" -> Retourne("False")
    [] OTHER -> Leve(IssueValidation)

\* state["indicateurs"] as valider_vote leaves it.
IndicateursApresValidation ==
  CASE IssueValidation = "approuve" ->
         [indicateurs EXCEPT !.fonctionnalite_approuvee = TRUE]
    [] IssueValidation = "rejete" ->
         [indicateurs EXCEPT !.fonctionnalite_approuvee = FALSE]
    [] OTHER -> indicateurs

valider_vote ==
  /\ appel' = "valider_vote"
  /\ indicateurs' = IndicateursApresValidation
  /\ retour' = RetourValidation
  /\ UNCHANGED <<participants, backlog, id_fonctionnalite>>

(* ------------------------------ the backlog ---------------------------- *)

\* The object the class Fonctionnalite builds: it keeps each keyword argument
\* as the attribute of the same name.
Fonctionnalite(id, arguments) ==
  [id |-> id,
   nom |-> arguments.nom,
   priorite |-> arguments.priorite,
   difficulte |-> arguments.difficulte,
   mode_de_vote |-> arguments.mode_de_vote,
   participants |-> arguments.participants]

\* One more than the number of features.
new_id_longueur == Len(backlog) + 1

\* max((f.id for f in self.backlog), default=0) + 1
new_id ==
  IF backlog = <<>> THEN 1
  ELSE (CHOOSE m \in {backlog[k].id : k \in 1..Len(backlog)} :
          \A k \in 1..Len(backlog) : backlog[k].id <= m) + 1

\* int(f.priorite) raises for some feature of the list: list.sort raises
\* with it and leaves the list as it was.
tri_leve(liste) == \E k \in 1..Len(liste) : ~int_accepte(liste[k].priorite)

\* inserer putting the feature before the features of its own priority.
inserer_avant(liste, fonctionnalite) ==
  LET avant == Cardinality({k \in 1..Len(liste) :
                             int(liste[k].priorite) < int(fonctionnalite.priorite)})
  IN SubSeq(liste, 1, avant) \o <<fonctionnalite>> \o SubSeq(liste, avant + 1, Len(liste))

\* The feature inserted into a sorted list after the features whose
\* priority is not greater than its own.
inserer(liste, fonctionnalite) ==
  LET avant == Cardinality({k \in 1..Len(liste) :
                             int(liste[k].priorite) <= int(fonctionnalite.priorite)})
  IN SubSeq(liste, 1, avant) \o <<fonctionnalite>> \o SubSeq(liste, avant + 1, Len(liste))

RECURSIVE tri(_)
\* liste.sort(key=lambda f: int(f.priorite)): ascending, and stable.
tri(liste) ==
  IF liste = <<>> THEN <<>>
  ELSE inserer(tri(SubSeq(liste, 1, Len(liste) - 1)), liste[Len(liste)])

\* self.backlog after trier_backlog() was called on `liste`, whether it
\* raised or not.
trier_backlog(liste) == IF tri_leve(liste) THEN liste ELSE tri(liste)

ajout_fonctionnalite(arguments) ==
  /\ new_id <= MaxId
  /\ Len(backlog) < MaxId
  /\ appel' = "ajout_fonctionnalite"
  /\ backlog' = trier_backlog(Append(backlog, Fonctionnalite(new_id, arguments)))
     \* the exception of trier_backlog is caught and printed
  /\ retour' = Retourne("None")
  /\ UNCHANGED <<participants, id_fonctionnalite, indicateurs>>

\* modifiee that leaves the priority as it is.
modifiee_sans_priorite(fonctionnalite, kwargs) ==
  [key \in DOMAIN fonctionnalite |->
     IF key \in DOMAIN kwargs /\ key # "priorite" THEN kwargs[key]
     ELSE fonctionnalite[key]]

\* setattr(fonctionnalite, key, value) for the keys that are attributes.
modifiee(fonctionnalite, kwargs) ==
  [key \in DOMAIN fonctionnalite |->
     IF key \in DOMAIN kwargs THEN kwargs[key] ELSE fonctionnalite[key]]

\* modifier_fonctionnalite taking the id for a position in the list.
modifier_fonctionnalite_position(fonctionnalite_id, kwargs) ==
  /\ appel' = "modifier_fonctionnalite"
  /\ IF fonctionnalite_id \notin 1..Len(backlog)
     THEN /\ retour' = Leve("ValueError: fonctionnalite non trouvee")
          /\ UNCHANGED backlog
     ELSE LET liste == [backlog EXCEPT ![fonctionnalite_id] =
                          modifiee(backlog[fonctionnalite_id], kwargs)] IN
            /\ backlog' = trier_backlog(liste)
            /\ retour' = IF tri_leve(liste) THEN Leve("ValueError: int()")
                                            ELSE Retourne("None")
  /\ UNCHANGED <<participants, id_fonctionnalite, indicateurs>>

\* AppManager.modifier_fonctionnalite(fonctionnalite_id, **kwargs).
modifier_fonctionnalite(fonctionnalite_id, kwargs) ==
  /\ appel' = "modifier_fonctionnalite"
  /\ LET k == PositionFonctionnalite(fonctionnalite_id) IN
       IF k = 0
       THEN /\ retour' = Leve("ValueError: fonctionnalite non trouvee")
            /\ UNCHANGED backlog
       ELSE LET liste == [backlog EXCEPT ![k] = modifiee(backlog[k], kwargs)] IN
              /\ backlog' = trier_backlog(liste)
              /\ retour' = IF tri_leve(liste) THEN Leve("ValueError: int()")
                                              ELSE Retourne("None")
  /\ UNCHANGED <<participants, id_fonctionnalite, indicateurs>>

\* supprimer_fonctionnalite taking the id for a position in the list.
supprimer_fonctionnalite_position(fonctionnalite_id) ==
  /\ appel' = "supprimer_fonctionnalite"
  /\ backlog' = [k \in 1..(Len(backlog) - (IF fonctionnalite_id \in 1..Len(backlog) THEN 1 ELSE 0)) |->
                   IF k < fonctionnalite_id THEN backlog[k] ELSE backlog[k + 1]]
  /\ retour' = Retourne("None")
  /\ UNCHANGED <<participants, id_fonctionnalite, indicateurs>>

\* self.backlog = [f for f in self.backlog if f.id != fonctionnalite_id]
supprimer_fonctionnalite(fonctionnalite_id) ==
  /\ appel' = "supprimer_fonctionnalite"
  /\ backlog' = SelectSeq(backlog, LAMBDA f : f.id # fonctionnalite_id)
  /\ retour' = Retourne("None")
  /\ UNCHANGED <<participants, id_fonctionnalite, indicateurs>>

\* get_fonctionnalite: the position of the feature returned, 0 for None.
get_fonctionnalite(fonctionnalite_id) == PositionFonctionnalite(fonctionnalite_id)

\* return self.backlog[0] if self.backlog else None
afficher_fonctionnalite_prioritaire ==
  /\ appel' = "afficher_fonctionnalite_prioritaire"
  /\ retour' = Retourne(IF Len(backlog) > 0 THEN "backlog[0]" ELSE "None")
  /\ UNCHANGED <<participants, backlog, id_fonctionnalite, indicateurs>>

\* ajouter_fonctionnalite without the check of the difficulty.
ajouter_fonctionnalite_sans_difficulte(pseudo_actif, formulaire) ==
  IF pseudo_actif = "absent" \/ lower(pseudo_actif) # "po"
  THEN /\ appel' = "ajouter_fonctionnalite"
       /\ retour' = Retourne("redirect: acces reserve")
       /\ UNCHANGED <<participants, backlog, id_fonctionnalite, indicateurs>>
  ELSE IF ~isdigit(formulaire.priorite)
          \/ ~(PRIORITE_MIN <= int(formulaire.priorite)
                /\ int(formulaire.priorite) <= PRIORITE_MAX)
  THEN /\ appel' = "ajouter_fonctionnalite"
       /\ retour' = Retourne("render: erreurs")
       /\ UNCHANGED <<participants, backlog, id_fonctionnalite, indicateurs>>
  ELSE ajout_fonctionnalite([nom |-> formulaire.nom,
                             priorite |-> formulaire.priorite,
                             difficulte |-> formulaire.difficulte,
                             mode_de_vote |-> "unanimite",
                             participants |-> <<>>])

\* The route /ajouter_fonctionnalite of app.py: reserved to the Product
\* Owner, it checks the priority and the difficulty typed in before it calls
\* ajout_fonctionnalite with int() of them.
ajouter_fonctionnalite(pseudo_actif, formulaire) ==
  IF pseudo_actif = "absent" \/ lower(pseudo_actif) # "po"
  THEN /\ appel' = "ajouter_fonctionnalite"
       /\ retour' = Retourne("redirect: acces reserve")
       /\ UNCHANGED <<participants, backlog, id_fonctionnalite, indicateurs>>
  ELSE IF \/ ~isdigit(formulaire.priorite)
          \/ ~(PRIORITE_MIN <= int(formulaire.priorite)
                /\ int(formulaire.priorite) <= PRIORITE_MAX)
          \/ ~isdigit(formulaire.difficulte)
          \/ ~(DIFFICULTE_MIN <= int(formulaire.difficulte)
                /\ int(formulaire.difficulte) <= DIFFICULTE_MAX)
  THEN /\ appel' = "ajouter_fonctionnalite"
       /\ retour' = Retourne("render: erreurs")
       /\ UNCHANGED <<participants, backlog, id_fonctionnalite, indicateurs>>
  ELSE ajout_fonctionnalite([nom |-> formulaire.nom,
                             priorite |-> formulaire.priorite,
                             difficulte |-> formulaire.difficulte,
                             mode_de_vote |-> "unanimite",
                             participants |-> <<>>])

\* The route /edit_fonctionnalite_route/<id> of app.py (POST): every field
\* of the form goes to modifier_fonctionnalite as typed, and its exceptions
\* are caught and shown.
edit_fonctionnalite_route(fonctionnalite_id, formulaire) ==
  IF get_fonctionnalite(fonctionnalite_id) = 0
  THEN /\ appel' = "edit_fonctionnalite_route"
       /\ retour' = Retourne("redirect: fonctionnalite non trouvee")
       /\ UNCHANGED <<participants, backlog, id_fonctionnalite, indicateurs>>
  ELSE modifier_fonctionnalite(fonctionnalite_id, formulaire)

\* The route /supprimer_fonctionnalite_route/<id> of app.py.
supprimer_fonctionnalite_route(fonctionnalite_id) ==
  supprimer_fonctionnalite(fonctionnalite_id)

(* --------------------------- specifications ---------------------------- *)

\* The roster alone: any pseudo, any letter case, any session id.
NextConnexion ==
  \/ \E pseudo \in PseudosConnexion, session_id \in SessionIds :
       ajouter_participant(pseudo, session_id)
  \/ \E session_id \in SessionIds : logout_participant(session_id)

SpecConnexion == Init /\ [][NextConnexion]_vars

\* The backlog files the application is started on when the routes /login
\* and /logout are exercised: none, one whose feature of highest priority
\* lists "bob" and does not list "lina", and BacklogCharge.
BacklogsLogin ==
  { <<>>,
    << [id |-> 1, priorite |-> 1, mode_de_vote |-> "unanimite",
        participants |-> <<"hugo", "bob">>] >>,
    BacklogCharge }

InitLogin ==
  /\ participants = <<>>
  /\ backlog \in BacklogsLogin
  /\ id_fonctionnalite = AucuneFonctionnalite
  /\ indicateurs = [reunion_active |-> FALSE,
                    vote_commence |-> FALSE,
                    votes_reveles |-> FALSE,
                    tout_le_monde_a_vote |-> FALSE,
                    fonctionnalite_approuvee |-> FALSE]
  /\ appel = "__init__"
  /\ retour = Retourne("None")

\* The roster as the browsers build it, through /login and /logout.
NextLogin ==
  \/ \E pseudo_saisi \in PseudosFormulaire, session_id \in SessionIdsLogin :
       login(pseudo_saisi, session_id)
  \/ \E session_id \in SessionIdsLogin \cup {""} : logout(session_id)

SpecLogin == InitLogin /\ [][NextLogin]_vars

\* The operations of the voting coordinator.
Next ==
  \/ \E c \in ConnexionsVote : ajouter_participant(c[1], c[2])
  \/ \E session_id \in SessionIdsVote : logout_participant(session_id)
  \/ \E fonctionnalite_id \in IdsDemandes : initier_vote(fonctionnalite_id)
  \/ \E pseudo \in PseudosVote, vote \in ValeursVote : ajouter_vote(pseudo, vote)
  \/ appeler_tout_le_monde_a_vote
  \/ reveler_votes
  \/ valider_vote
  \/ reinitialiser_votes

Spec == Init /\ [][Next]_vars

\* The same operations with a Product Owner, a Scrum Master and two Voters,
\* the privileged pseudos in capitals.
NextRoles ==
  \/ \E c \in ConnexionsRoles : ajouter_participant(c[1], c[2])
  \/ \E c \in ConnexionsRoles : logout_participant(c[2])
  \/ \E fonctionnalite_id \in IdsDemandesRoles : initier_vote(fonctionnalite_id)
  \/ \E c \in ConnexionsRoles, vote \in ValeursVoteRoles : ajouter_vote(c[1], vote)
  \/ appeler_tout_le_monde_a_vote
  \/ reveler_votes
  \/ valider_vote
  \/ reinitialiser_votes

SpecRoles == Init /\ [][NextRoles]_vars

\* A backlog file whose feature of highest priority is of mode unanimite
\* and expects "hugo" and "lina".
BacklogUnanimite ==
  << [id |-> 1, priorite |-> 1, mode_de_vote |-> "unanimite", participants |-> <<"hugo", "lina">>],
     [id |-> 2, priorite |-> 2, mode_de_vote |-> "moyenne", participants |-> <<"hugo">>] >>

InitUnanimite ==
  /\ participants = <<>>
  /\ backlog = BacklogUnanimite
  /\ id_fonctionnalite = AucuneFonctionnalite
  /\ indicateurs = [reunion_active |-> FALSE,
                    vote_commence |-> FALSE,
                    votes_reveles |-> FALSE,
                    tout_le_monde_a_vote |-> FALSE,
                    fonctionnalite_approuvee |-> FALSE]
  /\ appel = "__init__"
  /\ retour = Retourne("None")

\* Ids given to initier_vote on that backlog; 3 is the id of no feature.
IdsDemandesUnanimite == {1, 2, 3}

\* The operations of the voting coordinator on that backlog, with the
\* question whether the team is complete.
NextUnanimite ==
  \/ \E c \in ConnexionsVote : ajouter_participant(c[1], c[2])
  \/ \E session_id \in SessionIdsVote : logout_participant(session_id)
  \/ appeler_is_team_complete
  \/ \E fonctionnalite_id \in IdsDemandesUnanimite : initier_vote(fonctionnalite_id)
  \/ \E pseudo \in PseudosVote, vote \in ValeursVote : ajouter_vote(pseudo, vote)
  \/ appeler_tout_le_monde_a_vote
  \/ reveler_votes
  \/ valider_vote
  \/ reinitialiser_votes

SpecUnanimite == InitUnanimite /\ [][NextUnanimite]_vars

\* The manager of test_ajout_fonctionnalite: constructed on an empty backlog.
InitBacklog ==
  /\ participants = <<>>
  /\ backlog = <<>>
  /\ id_fonctionnalite = AucuneFonctionnalite
  /\ indicateurs = [reunion_active |-> FALSE,
                    vote_commence |-> FALSE,
                    votes_reveles |-> FALSE,
                    tout_le_monde_a_vote |-> FALSE,
                    fonctionnalite_approuvee |-> FALSE]
  /\ appel = "__init__"
  /\ retour = Retourne("None")

\* The operations on the backlog.
NextBacklog ==
  \/ \E arguments \in ArgumentsAjout : ajout_fonctionnalite(arguments)
  \/ \E fonctionnalite_id \in IdsFonctionnalites, kwargs \in KwargsDonnes :
       modifier_fonctionnalite(fonctionnalite_id, kwargs)
  \/ \E fonctionnalite_id \in IdsFonctionnalites :
       supprimer_fonctionnalite(fonctionnalite_id)
  \/ afficher_fonctionnalite_prioritaire

SpecBacklog == InitBacklog /\ [][NextBacklog]_vars

\* The operations on the backlog, modifier_fonctionnalite called with the id
\* among its keyword arguments.
NextBacklogIds ==
  \/ \E arguments \in {a \in ArgumentsAjout : a.priorite = "1"} :
       ajout_fonctionnalite(arguments)
  \/ \E fonctionnalite_id \in 0..MaxId, kwargs \in KwargsAvecId :
       modifier_fonctionnalite(fonctionnalite_id, kwargs)
  \/ \E fonctionnalite_id \in 0..MaxId :
       supprimer_fonctionnalite(fonctionnalite_id)

SpecBacklogIds == InitBacklog /\ [][NextBacklogIds]_vars

\* The operations on a backlog whose priorities are numbers,
\* modifier_fonctionnalite called with one field or several.
NextBacklogChamps ==
  \/ \E arguments \in {a \in ArgumentsAjout : int_accepte(a.priorite)} :
       ajout_fonctionnalite(arguments)
  \/ \E fonctionnalite_id \in IdsFonctionnalites, kwargs \in KwargsChamps :
       modifier_fonctionnalite(fonctionnalite_id, kwargs)
  \/ \E fonctionnalite_id \in IdsFonctionnalites :
       supprimer_fonctionnalite(fonctionnalite_id)

SpecBacklogChamps == InitBacklog /\ [][NextBacklogChamps]_vars

\* The backlog changed while one Voter votes rounds on its features.
NextBacklogEtTour ==
  \/ \E arguments \in ArgumentsTour : ajout_fonctionnalite(arguments)
  \/ \E fonctionnalite_id \in IdsFonctionnalites, kwargs \in KwargsTour :
       modifier_fonctionnalite(fonctionnalite_id, kwargs)
  \/ \E fonctionnalite_id \in IdsFonctionnalites :
       supprimer_fonctionnalite(fonctionnalite_id)
  \/ ajouter_participant(ConnexionTour[1], ConnexionTour[2])
  \/ logout_participant(ConnexionTour[2])
  \/ \E fonctionnalite_id \in IdsFonctionnalites : initier_vote(fonctionnalite_id)
  \/ ajouter_vote(ConnexionTour[1], VoteTour)
  \/ reveler_votes
  \/ valider_vote
  \/ reinitialiser_votes

SpecBacklogEtTour == InitBacklog /\ [][NextBacklogEtTour]_vars

\* The backlog as the browsers change it, through the routes.
NextBacklogRoutes ==
  \/ \E pseudo_actif \in PseudosActifsBacklog, formulaire \in FormulairesAjout :
       ajouter_fonctionnalite(pseudo_actif, formulaire)
  \/ \E fonctionnalite_id \in IdsFonctionnalites, formulaire \in FormulairesEdition :
       edit_fonctionnalite_route(fonctionnalite_id, formulaire)
  \/ \E fonctionnalite_id \in IdsFonctionnalites :
       supprimer_fonctionnalite_route(fonctionnalite_id)

SpecBacklogRoutes == InitBacklog /\ [][NextBacklogRoutes]_vars

\* The same operations, the votes coming in through the route /soumettre_vote
\* as they do in the running application.
NextSalle ==
  \/ \E c \in ConnexionsVote : ajouter_participant(c[1], c[2])
  \/ \E session_id \in SessionIdsVote : logout_participant(session_id)
  \/ \E fonctionnalite_id \in IdsDemandes : initier_vote(fonctionnalite_id)
  \/ \E pseudo_actif \in {"absent", "", "sm"}, pseudo \in PseudosVote \cup {""},
        vote \in ValeursVote \cup {""} : soumettre_vote(pseudo_actif, pseudo, vote)
  \/ reveler_votes
  \/ valider_vote
  \/ reinitialiser_votes

SpecSalle == Init /\ [][NextSalle]_vars

(* ------------------------- vocabulary of the claims -------------------- *)

ProductOwners == {i \in Indices : participants[i].fonction = "Product Owner"}

ScrumMasters == {i \in Indices : participants[i].fonction = "Scrum Master"}

\* The connected Voters that hold a vote.
VotantsAyantVote ==
  {i \in Indices : participants[i].fonction = "Votant" /\ participants[i].vote # PasDeVote}

UnVoteExiste == \E i \in Indices : participants[i].vote # PasDeVote

\* The feature passed to the last initier_vote is in the backlog with this mode.
ModeActifEst(mode) ==
  /\ id_fonctionnalite # AucuneFonctionnalite
  /\ \E k \in 1..Len(backlog) :
       backlog[k].id = id_fonctionnalite /\ backlog[k].mode_de_vote = mode

VotesTousNumeriques ==
  \A i \in VotantsAyantVote : int_accepte(participants[i].vote)

InitierVoteReussi == appel = "initier_vote" /\ retour.issue = "return"

ValiderVoteRetourne == appel = "valider_vote" /\ retour.issue = "return"

Booleen(b) == IF b THEN "True" ELSE "False"

(* -------------------------------- C1 ----------------------------------- *)

\* C1: in every state reached by ajouter_participant and logout_participant
\* calls, at most one participant is Product Owner and at most one is
\* Scrum Master.
C1_UnSeulParRole ==
  /\ Cardinality(ProductOwners) <= 1
  /\ Cardinality(ScrumMasters) <= 1

\* A Product Owner is connected and a second one ("po" or "PO") was refused.
C1_Temoin ==
  /\ appel = "ajouter_participant"
  /\ retour = Leve("ValueError: Product Owner existe deja")
  /\ Cardinality(ProductOwners) = 1

(* -------------------------------- C2 ----------------------------------- *)

\* C2: after every successful initier_vote(fonctionnalite_id) every vote is
\* None, votes_reveles and tout_le_monde_a_vote are false, vote_commence is
\* true and id_fonctionnalite is fonctionnalite_id.
C2_NouveauTourRemisAZero ==
  [][\A fonctionnalite_id \in IdsDemandes :
       (initier_vote(fonctionnalite_id) /\ retour'.issue = "return") =>
         /\ \A i \in 1..Len(participants') : participants'[i].vote = PasDeVote
         /\ ~indicateurs'.votes_reveles
         /\ ~indicateurs'.tout_le_monde_a_vote
         /\ indicateurs'.vote_commence
         /\ id_fonctionnalite' = fonctionnalite_id]_vars

(* -------------------------------- C3 ----------------------------------- *)

\* C3: once a participant holds a vote, every ajouter_vote for that pseudo
\* raises "a deja vote" and changes no vote, and the vote keeps its value
\* until initier_vote or reinitialiser_votes clears it.  (A participant
\* that logout_participant removes holds no vote any more; the entry a later
\* ajouter_participant creates for the pseudo is a new participant.)
C3_VoteUnique ==
  [][\A i \in Indices :
       participants[i].vote # PasDeVote =>
         /\ \A vote \in ValeursVote :
              ajouter_vote(participants[i].pseudo, vote) =>
                /\ retour' = Leve("ValueError: a deja vote")
                /\ participants' = participants
         /\ \/ \E j \in 1..Len(participants') :
                 /\ participants'[j].pseudo = participants[i].pseudo
                 /\ participants'[j].vote = participants[i].vote
            \/ appel' \in {"initier_vote", "reinitialiser_votes"}
            \/ /\ appel' = "logout_participant"
               /\ \A j \in 1..Len(participants') :
                    participants'[j].pseudo # participants[i].pseudo]_vars

\* A second vote was refused and the first one is still there.
C3_Temoin ==
  /\ appel = "ajouter_vote"
  /\ retour = Leve("ValueError: a deja vote")
  /\ UnVoteExiste

(* -------------------------------- C4 ----------------------------------- *)

\* C4: after every valider_vote that returns, fonctionnalite_approuvee is
\* the boolean it returned.
C4_IndicateurEgalRetour ==
  ValiderVoteRetourne =>
    retour.valeur = Booleen(indicateurs.fonctionnalite_approuvee)

(* -------------------------------- C5 ----------------------------------- *)

\* C5: when the active feature is of mode unanimite and some Voter holds a
\* vote, valider_vote returns True if and only if all the votes the Voters
\* hold are one value, whatever feature is of highest priority.
C5_Unanimite ==
  (appel = "valider_vote" /\ ModeActifEst("unanimite") /\ VotantsAyantVote # {}) =>
    retour = Retourne(Booleen(\A i, j \in VotantsAyantVote :
                                participants[i].vote = participants[j].vote))

\* Approved by two Voters of one mind, the Scrum Master holding another
\* value, while the feature of highest priority is another one.
C5_Temoin ==
  /\ appel = "valider_vote"
  /\ ModeActifEst("unanimite")
  /\ backlog[1].id # id_fonctionnalite
  /\ Cardinality(VotantsAyantVote) = 2
  /\ \E i \in ScrumMasters : \E j \in VotantsAyantVote :
       participants[i].vote \notin {PasDeVote, participants[j].vote}
  /\ retour = Retourne("True")

(* -------------------------------- C6 ----------------------------------- *)

RECURSIVE SommeEcarts(_)
\* The sum over the positions S of (vote - threshold of the average).
SommeEcarts(S) ==
  IF S = {} THEN 0
  ELSE LET i == CHOOSE j \in S : TRUE
       IN (int(participants[i].vote) - SEUIL_APPROBATION_MOYENNE) + SommeEcarts(S \ {i})

\* C6: when the active feature is of mode moyenne and every vote a Voter
\* holds is a number, valider_vote returns True if and only if the mean of
\* these votes is at least the threshold (the mean is at least the threshold
\* exactly when the votes' distances to it sum to 0 or more).
C6_Moyenne ==
  (appel = "valider_vote" /\ ModeActifEst("moyenne") /\ VotantsAyantVote # {}
     /\ VotesTousNumeriques) =>
    retour = Retourne(Booleen(SommeEcarts(VotantsAyantVote) >= 0))

\* Votes 3 and 5, mean 4 = threshold: approved.
C6_Temoin ==
  /\ appel = "valider_vote"
  /\ ModeActifEst("moyenne")
  /\ {participants[i].vote : i \in VotantsAyantVote} = {"3", "5"}
  /\ retour = Retourne("True")
  /\ indicateurs.fonctionnalite_approuvee

(* -------------------------------- C7 ----------------------------------- *)

\* The votes at the positions S in ascending order.
VotesTries(S) ==
  CHOOSE f \in [1..Cardinality(S) -> S] :
    /\ \A a, b \in 1..Cardinality(S) : a # b => f[a] # f[b]
    /\ \A a, b \in 1..Cardinality(S) :
         a < b => int(participants[f[a]].vote) <= int(participants[f[b]].vote)

\* Twice the median of the votes at the positions S (S not empty).
DoubleMediane(S) ==
  LET n == Cardinality(S)
      f == VotesTries(S)
  IN IF n % 2 = 1
     THEN 2 * int(participants[f[(n + 1) \div 2]].vote)
     ELSE int(participants[f[n \div 2]].vote) + int(participants[f[n \div 2 + 1]].vote)

\* C7: when the active feature is of mode mediane and every vote a Voter
\* holds is a number, valider_vote returns a boolean, True if and only if
\* the median of these votes is at least the threshold.
C7_Mediane ==
  (appel = "valider_vote" /\ ModeActifEst("mediane") /\ VotantsAyantVote # {}
     /\ VotesTousNumeriques) =>
    retour = Retourne(Booleen(DoubleMediane(VotantsAyantVote)
                                >= 2 * SEUIL_APPROBATION_MEDIANE))

(* -------------------------------- C8 ----------------------------------- *)

\* C8: under mode moyenne or mediane, a valider_vote that finds a Voter's
\* vote int() does not parse ends with the ValueError of int() and changes
\* neither fonctionnalite_approuvee nor any vote.
C8_VoteNonNumerique ==
  [][(valider_vote /\ (ModeActifEst("moyenne") \/ ModeActifEst("mediane"))
        /\ ~VotesTousNumeriques) =>
       /\ retour' = Leve("ValueError: int()")
       /\ indicateurs' = indicateurs
       /\ participants' = participants]_vars

(* -------------------------------- C9 ----------------------------------- *)

C10_NouveauTourNonApprouve ==
  InitierVoteReussi => ~indicateurs.fonctionnalite_approuvee

(* -------------------------------- C11 ---------------------------------- *)

\* C11: ajouter_participant for a pseudo that is connected raises "existe
\* deja", whatever the session id, and leaves the roster as it was: the
\* same participants with the same roles, votes and session ids.
C11_DoublonRefuse ==
  [][\A pseudo \in PseudosConnexion, session_id \in SessionIds :
       (pseudo \in PseudosConnectes /\ ajouter_participant(pseudo, session_id)) =>
         /\ retour' = Leve("ValueError: existe deja")
         /\ participants' = participants]_vars

\* A connected pseudo was refused, with a session id no participant holds.
C11_Temoin ==
  /\ appel = "ajouter_participant"
  /\ retour = Leve("ValueError: existe deja")
  /\ Len(participants) = 2
  /\ \E session_id \in SessionIds :
       \A i \in Indices : participants[i].session_id # session_id

(* -------------------------------- C12 ---------------------------------- *)

\* The pseudo was turned away as not authorised (an empty one included).
NonAutorise ==
  retour.valeur \in {"redirect: non autorise", "ValueError: non autorise",
                     "ValueError: pseudo vide"}

\* C12: a pseudo that logs in is turned away as not authorised if and only
\* if it is empty or it is neither one of the fixed pseudos ("po", "sm") nor
\* listed in the participants of the feature of highest priority; a pseudo
\* only that feature lists is let in.
C12_Autorisation ==
  [][\A pseudo_saisi \in PseudosFormulaire, session_id \in SessionIdsLogin :
       login(pseudo_saisi, session_id) =>
         LET pseudo == lower(strip(pseudo_saisi)) IN
           NonAutorise' <=>
             \/ pseudo = ""
             \/ pseudo \notin {"po", "sm"} /\ pseudo \notin participants_backlog]_vars

(* -------------------------------- C13 ---------------------------------- *)

\* The spellings of "po" and of "sm" in any letter case.
EcrituresDePO == {"po", "Po", "pO", "PO"}

EcrituresDeSM == {"sm", "Sm", "sM", "SM"}

\* C13: a participant is Product Owner exactly when its pseudo is "po" in
\* some letter case, Scrum Master exactly when it is "sm" in some letter
\* case, and Votant otherwise; and no operation changes the role of a
\* participant that stays connected.
C13_Roles ==
  /\ [](\A i \in Indices :
         /\ participants[i].fonction = "Product Owner"
              <=> participants[i].pseudo \in EcrituresDePO
         /\ participants[i].fonction = "Scrum Master"
              <=> participants[i].pseudo \in EcrituresDeSM
         /\ participants[i].fonction = "Votant"
              <=> participants[i].pseudo \notin EcrituresDePO \cup EcrituresDeSM)
  /\ [][\A i \in Indices : \A j \in 1..Len(participants') :
          (/\ participants'[j].pseudo = participants[i].pseudo
           /\ participants'[j].session_id = participants[i].session_id)
            => participants'[j].fonction = participants[i].fonction]_vars

\* "PO", "SM", "lina" and "hugo" joined in this order, all four accepted,
\* and a round has gone on since: the Voters hold votes.
C13_Temoin ==
  /\ Len(participants) = 4
  /\ [i \in 1..4 |-> participants[i].pseudo] = <<"PO", "SM", "lina", "hugo">>
  /\ [i \in 1..4 |-> participants[i].fonction]
       = <<"Product Owner", "Scrum Master", "Votant", "Votant">>
  /\ Cardinality(VotantsAyantVote) = 2
  /\ appel = "valider_vote"

(* -------------------------------- C14 ---------------------------------- *)

\* The roster without its entry at position i.
SansPosition(i) ==
  [j \in 1..(Len(participants) - 1) |->
     IF j < i THEN participants[j] ELSE participants[j + 1]]

\* C14: session ids being one per participant, logout_participant(session_id)
\* removes the one participant that joined with session_id and leaves the
\* other entries (pseudo, role, vote, session id, order), the indicators,
\* id_fonctionnalite and the backlog as they were; with a session id no
\* participant holds it changes nothing at all.
C14_Logout ==
  [][\A session_id \in SessionIdsVote :
       logout_participant(session_id) =>
         LET tenus == {i \in Indices : participants[i].session_id = session_id} IN
           /\ Cardinality(tenus) <= 1
           /\ tenus = {} => participants' = participants
           /\ \A i \in tenus : participants' = SansPosition(i)
           /\ indicateurs' = indicateurs
           /\ id_fonctionnalite' = id_fonctionnalite
           /\ backlog' = backlog]_vars

\* After a logout in the middle of a round, two participants are left, one
\* of them holding a vote.
C14_Temoin ==
  /\ appel = "logout_participant"
  /\ Len(participants) = 2
  /\ UnVoteExiste
  /\ indicateurs.vote_commence
  /\ indicateurs.votes_reveles

(* -------------------------------- C15 ---------------------------------- *)

\* The connected Voters.
Votants == {i \in Indices : participants[i].fonction = "Votant"}

\* C15: tout_le_monde_a_vote() returns True if and only if every connected
\* Voter holds a vote; the votes of the Product Owner and of the Scrum
\* Master do not count, and with no Voter connected it returns True.
C15_ToutLeMondeAVote ==
  appel = "tout_le_monde_a_vote" =>
    /\ retour = Retourne(Booleen(VotantsAyantVote = Votants))
    /\ Votants = {} => retour = Retourne("True")

\* True was returned while the Scrum Master holds no vote and both Voters
\* hold one.
C15_Temoin ==
  /\ appel = "tout_le_monde_a_vote"
  /\ retour = Retourne("True")
  /\ Cardinality(Votants) = 2
  /\ \E i \in ScrumMasters : participants[i].vote = PasDeVote

(* -------------------------------- C16 ---------------------------------- *)

\* pseudo -> vote for the connected participants that hold a vote, whatever
\* their role.
VotesTenus ==
  {<<participants[i].pseudo, participants[i].vote>> :
     i \in {j \in Indices : participants[j].vote # PasDeVote}}

\* C16: reveler_votes() returns pseudo -> vote for exactly the connected
\* participants that hold a vote, of any role, sets votes_reveles and
\* changes nothing else; called again right after, it returns the same
\* mapping and changes nothing.
C16_Reveler ==
  [][reveler_votes =>
       /\ retour' = RetourneVotes(VotesTenus)
       /\ indicateurs' = [indicateurs EXCEPT !.votes_reveles = TRUE]
       /\ participants' = participants
       /\ id_fonctionnalite' = id_fonctionnalite
       /\ backlog' = backlog
       /\ appel = "reveler_votes" => (retour' = retour /\ indicateurs' = indicateurs)]_vars

\* The votes of the Scrum Master and of one Voter were returned, the other
\* Voter holding none.
C16_Temoin ==
  /\ appel = "reveler_votes"
  /\ Cardinality(retour.votes) = 2
  /\ \E i \in ScrumMasters :
       <<participants[i].pseudo, participants[i].vote>> \in retour.votes
  /\ Cardinality(Votants) = 2
  /\ indicateurs.votes_reveles

(* -------------------------------- C17 ---------------------------------- *)

\* C17: reinitialiser_votes() sets every vote to None and vote_commence and
\* votes_reveles to false, and leaves id_fonctionnalite,
\* fonctionnalite_approuvee (and the other indicators), the participants
\* with their roles and session ids, and the backlog as they were.
C17_Reinitialiser ==
  [][reinitialiser_votes =>
       /\ Len(participants') = Len(participants)
       /\ \A i \in Indices :
            participants'[i] = [participants[i] EXCEPT !.vote = PasDeVote]
       /\ indicateurs' = [indicateurs EXCEPT !.vote_commence = FALSE,
                                             !.votes_reveles = FALSE]
       /\ id_fonctionnalite' = id_fonctionnalite
       /\ backlog' = backlog]_vars

\* Reset after a round that was approved: the feature and its approval are
\* still there, no vote is.
C17_Temoin ==
  /\ appel = "reinitialiser_votes"
  /\ indicateurs.fonctionnalite_approuvee
  /\ id_fonctionnalite # AucuneFonctionnalite
  /\ Len(participants) = 3
  /\ ~UnVoteExiste
  /\ ~indicateurs.vote_commence

(* -------------------------------- C18 ---------------------------------- *)

\* The step changes the vote of a participant that is not a Voter, and
\* nothing else of the roster, the round or the backlog.
SeulUnVoteDeNonVotantChange ==
  /\ backlog' = backlog
  /\ id_fonctionnalite' = id_fonctionnalite
  /\ indicateurs' = indicateurs
  /\ Len(participants') = Len(participants)
  /\ \A i \in Indices :
       /\ participants'[i] = [participants[i] EXCEPT !.vote = participants'[i].vote]
       /\ participants[i].fonction = "Votant" => participants'[i] = participants[i]
  /\ participants' # participants

\* C18: two states that differ only in the vote of a participant that is not
\* a Voter (here the states before and after any step that changes such a
\* vote and nothing else) give the same answer to tout_le_monde_a_vote(),
\* the same return of valider_vote() and the same fonctionnalite_approuvee
\* after it.
C18_SeulsLesVotantsComptent ==
  [][SeulUnVoteDeNonVotantChange =>
       /\ tout_le_monde_a_vote' = tout_le_monde_a_vote
       /\ RetourValidation' = RetourValidation
       /\ IndicateursApresValidation' = IndicateursApresValidation]_vars

\* The Scrum Master has cast a vote that is not the one the two Voters
\* agree on, in a round of mode unanimite.
C18_Temoin ==
  /\ appel = "ajouter_vote"
  /\ retour = Retourne("None")
  /\ ModeActifEst("unanimite")
  /\ Cardinality(VotantsAyantVote) = 2
  /\ \A i, j \in VotantsAyantVote : participants[i].vote = participants[j].vote
  /\ \E i \in ScrumMasters : \E j \in VotantsAyantVote :
       participants[i].vote \notin {PasDeVote, participants[j].vote}

(* -------------------------------- C19 ---------------------------------- *)

\* "hugo" and "lina" are the participants connected.
HugoEtLinaConnectes == PseudosConnectes = {"hugo", "lina"}

\* The round is on the feature of highest priority and "hugo" and "lina"
\* have cast the vote `vote`.
HugoEtLinaOntVote(vote) ==
  /\ HugoEtLinaConnectes
  /\ id_fonctionnalite = backlog[1].id
  /\ \A i \in Indices : participants[i].vote = vote

\* C19: the feature of highest priority being of mode unanimite with
\* participants "hugo" and "lina": once the two have joined an empty roster
\* is_team_complete is true of that feature; once a round on it is started
\* and both have cast one same value, tout_le_monde_a_vote() is true,
\* reveler_votes() returns exactly their two votes and valider_vote() returns
\* True and leaves fonctionnalite_approuvee true.
C19_TourUnanime ==
  /\ backlog[1].mode_de_vote = "unanimite"
  /\ backlog[1].participants = <<"hugo", "lina">>
  /\ HugoEtLinaConnectes =>
       /\ is_team_complete(backlog[1])
       /\ appel = "is_team_complete" => retour = Retourne("True")
  /\ \A vote \in ValeursVote :
       HugoEtLinaOntVote(vote) =>
         /\ tout_le_monde_a_vote
         /\ appel = "tout_le_monde_a_vote" => retour = Retourne("True")
         /\ appel = "reveler_votes" =>
              retour = RetourneVotes({<<"hugo", vote>>, <<"lina", vote>>})
         /\ appel = "valider_vote" =>
              /\ retour = Retourne("True")
              /\ indicateurs.fonctionnalite_approuvee

\* The end of the scenario: "hugo" then "lina" joined, the votes were
\* revealed and the round on the feature of highest priority was approved.
C19_Temoin ==
  /\ \E vote \in ValeursVote : HugoEtLinaOntVote(vote)
  /\ [i \in Indices |-> participants[i].pseudo] = <<"hugo", "lina">>
  /\ indicateurs.vote_commence
  /\ indicateurs.votes_reveles
  /\ appel = "valider_vote"
  /\ retour = Retourne("True")
  /\ indicateurs.fonctionnalite_approuvee

(* -------------------------------- C20 ---------------------------------- *)

\* The indicators after reveler_votes and valider_vote, in whichever order:
\* those valider_vote leaves, with votes_reveles set.
IndicateursApresLesDeux ==
  [IndicateursApresValidation EXCEPT !.votes_reveles = TRUE]

\* C20: reveler_votes and valider_vote commute.  From a state s,
\* valider_vote called after reveler_votes returns what it returns in s and
\* leaves the indicators IndicateursApresLesDeux of s; reveler_votes called
\* after valider_vote returns what it returns in s and leaves the same
\* indicators; neither touches the roster, id_fonctionnalite or the backlog,
\* and reveler_votes is never refused.
C20_Commutent ==
  [][/\ reveler_votes =>
          /\ retour'.issue = "return"
          /\ RetourValidation' = RetourValidation
          /\ IndicateursApresValidation' = IndicateursApresLesDeux
          /\ UNCHANGED <<participants, id_fonctionnalite, backlog>>
     /\ valider_vote =>
          /\ retour' = RetourValidation
          /\ votes_des_participants' = votes_des_participants
          /\ IndicateursApresRevelation' = IndicateursApresLesDeux
          /\ UNCHANGED <<participants, id_fonctionnalite, backlog>>]_vars

\* Both calls have been made on a round of two Voters, valider_vote first:
\* the feature is approved and the votes are revealed.
C20_Temoin ==
  /\ appel = "reveler_votes"
  /\ Cardinality(retour.votes) >= 2
  /\ Cardinality(VotantsAyantVote) = 2
  /\ id_fonctionnalite # AucuneFonctionnalite
  /\ indicateurs.fonctionnalite_approuvee
  /\ indicateurs.votes_reveles

(* -------------------------------- C21 ---------------------------------- *)

\* C21: after any sequence of ajout_fonctionnalite, modifier_fonctionnalite
\* and supprimer_fonctionnalite calls the backlog is in ascending order of
\* priority: of two features whose priorities are numbers, the one stored
\* first has the priority that is not greater.
C21_BacklogTrie ==
  \A i, j \in 1..Len(backlog) :
    (i < j /\ int_accepte(backlog[i].priorite) /\ int_accepte(backlog[j].priorite))
      => int(backlog[i].priorite) <= int(backlog[j].priorite)

(* -------------------------------- C22 ---------------------------------- *)

\* Every priority in the backlog is a number.
PrioritesToutesNumeriques ==
  \A k \in 1..Len(backlog) : int_accepte(backlog[k].priorite)

\* C22: of two features of equal priority the one added first is stored
\* first, also after modifier_fonctionnalite has made the priorities equal.
\* (The backlog starts empty and no id is rewritten, so of two features in
\* the backlog the one added first is the one with the smaller id.)
C22_EgalitesDansLOrdreDAjout ==
  PrioritesToutesNumeriques =>
    \A i, j \in 1..Len(backlog) :
      (i < j /\ int(backlog[i].priorite) = int(backlog[j].priorite))
        => backlog[i].id < backlog[j].id

\* C22 as amended: every call leaves two features whose priorities are equal
\* after it in the order they were in before it, and ajout_fonctionnalite
\* stores the new feature after the features of its priority.
C22_EgalitesDansLOrdrePrecedent ==
  [][/\ \A i, j \in 1..Len(backlog) : \A i2, j2 \in 1..Len(backlog') :
          (/\ i < j
           /\ backlog'[i2].id = backlog[i].id
           /\ backlog'[j2].id = backlog[j].id
           /\ backlog'[i2].priorite = backlog'[j2].priorite)
            => i2 < j2
     /\ appel' = "ajout_fonctionnalite" =>
          \A i2, j2 \in 1..Len(backlog') :
            (/\ backlog'[i2].id = new_id
             /\ j2 # i2
             /\ backlog'[j2].priorite = backlog'[i2].priorite)
              => j2 < i2]_vars

\* modifier_fonctionnalite has made two priorities equal, and the feature
\* added last is stored first.
C22_Temoin ==
  /\ appel = "modifier_fonctionnalite"
  /\ retour = Retourne("None")
  /\ \E i, j \in 1..Len(backlog) :
       /\ i < j
       /\ backlog[i].priorite = backlog[j].priorite
       /\ backlog[i].id > backlog[j].id

(* -------------------------------- C23 ---------------------------------- *)

\* The text is a whole number between the two bounds, bounds included.
DansLesBornes(texte, minimum, maximum) ==
  \E n \in minimum..maximum : int_accepte(texte) /\ int(texte) = n

IdsDuBacklog == {backlog[k].id : k \in 1..Len(backlog)}

\* `id` is one more than the largest id of the backlog, 1 when it is empty.
UnDePlusQueLeMax(id) ==
  /\ \A autre \in IdsDuBacklog : autre < id
  /\ id = 1 \/ id - 1 \in IdsDuBacklog
  /\ backlog = <<>> => id = 1

\* C24: an add gives the new feature the id max(ids of the backlog) + 1, 1
\* when the backlog is empty, makes the backlog one feature longer, and
\* get_fonctionnalite of that id right afterwards finds a feature whose
\* fields are the arguments of the add.
C24_AjoutPuisGet ==
  [][\A arguments \in ArgumentsAjout :
       ajout_fonctionnalite(arguments)
         => \E id \in IdsFonctionnalites :
              /\ UnDePlusQueLeMax(id)
              /\ Len(backlog') = Len(backlog) + 1
              /\ get_fonctionnalite(id)' # 0
              /\ LET trouvee == backlog'[get_fonctionnalite(id)']
                 IN /\ trouvee.id = id
                    /\ \A champ \in DOMAIN arguments :
                         trouvee[champ] = arguments[champ]]_vars

\* An add came after a removal: the backlog holds two features, one of them
\* with the id 3.
C24_Temoin ==
  /\ appel = "ajout_fonctionnalite"
  /\ Len(backlog) = 2
  /\ 3 \in IdsDuBacklog

(* -------------------------------- C25 ---------------------------------- *)

\* The id the next add gives out, read off the backlog.
ProchainId ==
  CHOOSE id \in 1..(Len(backlog) + MaxId + 1) : UnDePlusQueLeMax(id)

\* C25: the ids the adds give out go strictly up, so that no add gives out
\* an id a feature has held before, removed since or not.  Every id of the
\* backlog was given out by an add and an add is followed by a larger next
\* id, so this is: over no add, update or removal does the id the next add
\* gives out go down.
C25_IdsCroissants == [][ProchainId' >= ProchainId]_vars

(* -------------------------------- C26 ---------------------------------- *)

\* C26: in every state the adds, updates (whatever fields they are given)
\* and removals lead to, no two features of the backlog have the same id and
\* every id is a positive integer.
C26_IdsUniquesEtPositifs ==
  /\ \A i \in 1..Len(backlog), j \in 1..Len(backlog) :
       i # j => backlog[i].id # backlog[j].id
  /\ \A i \in 1..Len(backlog) : backlog[i].id \in Nat \ {0}

(* -------------------------------- C27 ---------------------------------- *)

\* The feature as an update of the feature of id `fonctionnalite_id` with
\* the fields `kwargs` has to leave it.
ApresModification(fonctionnalite, fonctionnalite_id, kwargs) ==
  [champ \in DOMAIN fonctionnalite |->
     IF fonctionnalite.id = fonctionnalite_id /\ champ \in DOMAIN kwargs
     THEN kwargs[champ] ELSE fonctionnalite[champ]]

\* C27: an update that succeeds sets the provided fields of the feature of
\* the id given to the values given and nothing else: the other fields of
\* the feature, the other features and which features the backlog holds are
\* as before, their order apart.  An update of an id that is not in the
\* backlog fails with "not found" and changes nothing.
C27_ModificationExacte ==
  [][\A fonctionnalite_id \in IdsFonctionnalites, kwargs \in KwargsChamps :
       modifier_fonctionnalite(fonctionnalite_id, kwargs)
         => IF fonctionnalite_id \notin IdsDuBacklog
            THEN /\ retour' = Leve("ValueError: fonctionnalite non trouvee")
                 /\ backlog' = backlog
            ELSE retour' = Retourne("None")
                   => /\ Len(backlog') = Len(backlog)
                      /\ \A k \in 1..Len(backlog) :
                           \E j \in 1..Len(backlog') :
                             backlog'[j] = ApresModification(backlog[k],
                                                            fonctionnalite_id, kwargs)]_vars

\* An update has renamed the feature of id 2 and given it the priority 2;
\* the feature of id 3 stored after it has kept its name.
C27_Temoin ==
  /\ appel = "modifier_fonctionnalite"
  /\ retour = Retourne("None")
  /\ Len(backlog) = 2
  /\ backlog[1].id = 2 /\ backlog[1].nom = "B" /\ backlog[1].priorite = "2"
  /\ backlog[2].id = 3 /\ backlog[2].nom = "A" /\ backlog[2].priorite = "2"

(* -------------------------------- C28 ---------------------------------- *)

\* C28: after a removal no feature of the backlog has the id given, and the
\* other features are all there, in the order they were in and with their
\* fields as they were; the removal of an id that is not in the backlog is
\* no error and leaves the backlog as it was.
C28_Suppression ==
  [][\A fonctionnalite_id \in IdsFonctionnalites :
       supprimer_fonctionnalite(fonctionnalite_id)
         => /\ retour' = Retourne("None")
            /\ \A k \in 1..Len(backlog') : backlog'[k].id # fonctionnalite_id
            /\ Len(backlog') =
                 Cardinality({k \in 1..Len(backlog) : backlog[k].id # fonctionnalite_id})
            /\ \A i \in 1..Len(backlog), j \in 1..Len(backlog) :
                 (/\ i <= j
                  /\ backlog[i].id # fonctionnalite_id
                  /\ backlog[j].id # fonctionnalite_id)
                   => \E k \in 1..Len(backlog'), l \in 1..Len(backlog') :
                        /\ k <= l
                        /\ backlog'[k] = backlog[i]
                        /\ backlog'[l] = backlog[j]
            /\ fonctionnalite_id \notin IdsDuBacklog => backlog' = backlog]_vars

\* A removal has left the features of ids 3 and 1, stored in that order.
C28_Temoin ==
  /\ appel = "supprimer_fonctionnalite"
  /\ Len(backlog) = 2
  /\ backlog[1].id = 3
  /\ backlog[2].id = 1

(* -------------------------------- C29 ---------------------------------- *)

\* C29: afficher_fonctionnalite_prioritaire returns None exactly when the
\* backlog is empty, and otherwise the first feature of the backlog, whose
\* priority is the smallest of the priorities of the backlog (compared as
\* numbers, where both are).
C29_Prioritaire ==
  appel = "afficher_fonctionnalite_prioritaire"
    => /\ retour = Retourne("None") <=> backlog = <<>>
       /\ backlog # <<>> =>
            /\ retour = Retourne("backlog[0]")
            /\ \A k \in 1..Len(backlog) :
                 (int_accepte(backlog[1].priorite) /\ int_accepte(backlog[k].priorite))
                   => int(backlog[1].priorite) <= int(backlog[k].priorite)

(* -------------------------------- C30 ---------------------------------- *)

\* The ValueErrors the manager raises to turn a call down, which its callers
\* catch and show: the one of a second vote is among them.
RefusRecuperables ==
  {Leve(message) : message \in {"ValueError: a deja vote",
                                 "ValueError: aucun participant trouve",
                                 "ValueError: pseudo vide",
                                 "ValueError: non autorise",
                                 "ValueError: existe deja",
                                 "ValueError: Product Owner existe deja",
                                 "ValueError: Scrum Master existe deja",
                                 "ValueError: fonctionnalite non trouvee"}}

\* C30: a vote for a pseudo that no connected participant has is turned down
\* with an error of the kind of the one of a second vote, one the caller
\* recovers from, and leaves the participants, their votes and the indicators
\* as they were.
C30_VoteDUnInconnu ==
  [][\A pseudo \in PseudosVote, vote \in ValeursVote :
       (/\ \A i \in Indices : participants[i].pseudo # pseudo
        /\ ajouter_vote(pseudo, vote))
         => /\ retour' \in RefusRecuperables
            /\ UNCHANGED <<participants, indicateurs>>]_vars

(* -------------------------------- C31 ---------------------------------- *)

\* C31: the voting mode of a feature is fixed when it is created: no
\* operation on the backlog or on the round changes the mode of a feature
\* that is in the backlog before and after it.  (ajout_fonctionnalite gives
\* an id no feature of the backlog has, so within one step the id tells the
\* feature.)
C31_ModeFixe ==
  [][\A i \in 1..Len(backlog), j \in 1..Len(backlog') :
       backlog'[j].id = backlog[i].id
         => backlog'[j].mode_de_vote = backlog[i].mode_de_vote]_vars

\* C31 as amended: the voting mode of a feature changes only in a
\* modifier_fonctionnalite of that feature's id whose fields name the voting
\* mode, and becomes the mode given; every other operation on the backlog or
\* on the round leaves it, and valider_vote judges the round by the mode the
\* active feature has when it is called.
C31_ModeChangeParModification ==
  [][/\ \A i \in 1..Len(backlog), j \in 1..Len(backlog') :
          (/\ backlog'[j].id = backlog[i].id
           /\ backlog'[j].mode_de_vote # backlog[i].mode_de_vote)
            => \E kwargs \in KwargsTour :
                 /\ "mode_de_vote" \in DOMAIN kwargs
                 /\ backlog'[j].mode_de_vote = kwargs.mode_de_vote
                 /\ modifier_fonctionnalite(backlog[i].id, kwargs)
     /\ (/\ valider_vote
         /\ \E i \in Indices : participants[i].vote = VoteTour
         /\ \E k \in 1..Len(backlog) : backlog[k].id = id_fonctionnalite)
          => \A k \in 1..Len(backlog) :
               backlog[k].id = id_fonctionnalite
                 => retour' = Retourne(IF backlog[k].mode_de_vote = "unanimite"
                                       THEN "True" ELSE "False")]_vars

\* The round on a feature whose mode was changed to the average after its
\* creation has just been judged by the average: the one vote, 3, is below
\* the threshold.
C31_Temoin ==
  /\ appel = "valider_vote"
  /\ retour = Retourne("False")
  /\ \E i \in Indices : participants[i].vote = VoteTour
  /\ \E k \in 1..Len(backlog) :
       backlog[k].id = id_fonctionnalite /\ backlog[k].mode_de_vote = "moyenne"

(* -------------------------------- C32 ---------------------------------- *)

\* C32: whatever joins and logouts were made, no two connected participants
\* have pseudos that are equal once the case of the letters is ignored.
C32_UniciteSansCasse ==
  \A i \in Indices, j \in Indices :
    i # j => lower(participants[i].pseudo) # lower(participants[j].pseudo)

(* -------------------------------- C33 ---------------------------------- *)

\* C33: whenever state["id_fonctionnalite"] is set, a feature of the backlog
\* has that id.
C33_FonctionnaliteActivePresente ==
  id_fonctionnalite # AucuneFonctionnalite
    => \E k \in 1..Len(backlog) : backlog[k].id = id_fonctionnalite

(* -------------------------------- C34 ---------------------------------- *)

\* C34: the indicator tout_le_monde_a_vote kept in state["indicateurs"] is
\* False in every state the joins, logouts and operations of the round lead
\* to, also where the method tout_le_monde_a_vote() returns True.
C34_IndicateurJamaisVrai == indicateurs.tout_le_monde_a_vote = FALSE

\* The method has just returned True, a Voter holding a vote, and the
\* indicator is False.
C34_Temoin ==
  /\ appel = "tout_le_monde_a_vote"
  /\ retour = Retourne("True")
  /\ \E i \in Indices :
       participants[i].fonction = "Votant" /\ participants[i].vote # PasDeVote
  /\ ~indicateurs.tout_le_monde_a_vote

(* -------------------------------- C35 ---------------------------------- *)

\* C35: a Voter who joins while a round is open holds no vote, so that
\* tout_le_monde_a_vote() is False right after the join whatever it was
\* before, and the join changes the vote of no other participant and no
\* indicator; and as long as a connected Voter holds no vote
\* tout_le_monde_a_vote() stays False: it becomes True only in the step
\* where that Voter votes or logs out.
C35_VotantArriveEnCoursDeTour ==
  [][/\ \A c \in ConnexionsVote :
          (/\ indicateurs.vote_commence
           /\ ajouter_participant(c[1], c[2])
           /\ retour' = Retourne("None")
           /\ participants'[Len(participants')].fonction = "Votant")
            => /\ participants'[Len(participants')].vote = PasDeVote
               /\ ~tout_le_monde_a_vote'
               /\ SubSeq(participants', 1, Len(participants)) = participants
               /\ indicateurs' = indicateurs
     /\ \A i \in Indices :
          (/\ participants[i].fonction = "Votant"
           /\ participants[i].vote = PasDeVote
           /\ tout_le_monde_a_vote')
            => \/ \E vote \in ValeursVote :
                    /\ ajouter_vote(participants[i].pseudo, vote)
                    /\ retour' = Retourne("None")
               \/ logout_participant(participants[i].session_id)]_vars

\* A Voter has just joined a round in which the only other Voter has voted.
C35_Temoin ==
  /\ appel = "ajouter_participant"
  /\ retour = Retourne("None")
  /\ indicateurs.vote_commence
  /\ Len(participants) >= 2
  /\ participants[Len(participants)].fonction = "Votant"
  /\ participants[Len(participants)].vote = PasDeVote
  /\ \E i \in 1..(Len(participants) - 1) :
       participants[i].fonction = "Votant" /\ participants[i].vote # PasDeVote
  /\ \A i \in 1..(Len(participants) - 1) :
       participants[i].fonction = "Votant" => participants[i].vote # PasDeVote

====
